---------------------------- MODULE Spec2Model ----------------------------
(***************************************************************************)
(* A model of the DOCE structural extraction engine                        *)
(* (treesitter/treesitter_py.py, MultiLanguageParser) and of the batch     *)
(* driver around it (flask_app_2.py, process / generate_documentation).    *)
(*                                                                         *)
(* The syntax-tree provider (tree-sitter) is an external collaborator.     *)
(* The model gives it the narrow node interface the code consumes: a type  *)
(* tag, the text span, ordered children, named fields, the previous named  *)
(* sibling and start/end points.  A source is a finite ordered tree whose  *)
(* nodes carry a construct kind; the provider of a profile maps the kind   *)
(* to the node type string that profile is configured with.                *)
(*                                                                         *)
(* Strings that the code converts (language ids, lower()) are sequences of *)
(* one-character strings; texts are sequences of tokens.                   *)
(***************************************************************************)
EXTENDS Integers, Sequences, FiniteSets, TLC

(***************************************************************************)
(* Bounds of the model.                                                    *)
(***************************************************************************)
\* largest number of nodes of a generated syntax tree
MaxNodes == 4
\* number of parser objects alive at once
NumParsers == 2
\* largest number of files of a walked folder
MaxFiles == 2

(***************************************************************************)
(* Python values.                                                          *)
(***************************************************************************)
\* the empty str ''
EmptyStr == <<>>

\* the empty dict {}
EmptyDict == [k \in {} |-> 0]

\* truthiness of a dict: {} is falsy
Truthy(d) == DOMAIN d # {}

\* d.get(k), with None for a missing key
DictGet(d, k) == IF k \in DOMAIN d THEN d[k] ELSE "None"

\* a Python str or list value of the profile table; == between a str and a
\* list is False in Python
PyStr(s) == [py |-> "str", v |-> s]
PyList(l) == [py |-> "list", v |-> l]

\* node.type == value  (node.type is always a str)
PyEqStr(nodeType, value) == value.py = "str" /\ value.v = nodeType

\* node.type in [...]
PyInList(nodeType, l) == \E k \in DOMAIN l : l[k] = nodeType

\* str.lower() on one character
LowerChar(c) ==
    CASE c = "P" -> "p"
      [] c = "Y" -> "y"
      [] c = "J" -> "j"
      [] c = "A" -> "a"
      [] c = "V" -> "v"
      [] c = "C" -> "c"
      [] c = "S" -> "s"
      [] c = "H" -> "h"
      [] OTHER -> c

\* str.lower()
Lower(s) == [k \in DOMAIN s |-> LowerChar(s[k])]

(***************************************************************************)
(* The profile table, MultiLanguageParser.LANGUAGE_CONFIGS.                *)
(***************************************************************************)
KeyPython == <<"p", "y", "t", "h", "o", "n">>
KeyJava == <<"j", "a", "v", "a">>
KeyCpp == <<"c", "p", "p">>
KeyC == <<"c">>
KeyJavascript == <<"j", "a", "v", "a", "s", "c", "r", "i", "p", "t">>

ProfileKeys == {KeyPython, KeyJava, KeyCpp, KeyC, KeyJavascript}

ProfileTable ==
    [k \in ProfileKeys |->
        CASE k = KeyPython ->
               [module |-> "ts_python",
                method_identifier |-> PyStr("def_statement"),
                class_identifier |-> PyStr("class"),
                import_identifiers |->
                    <<"import statement", "from statement import list">>,
                docstring_type |-> "string",
                name_field |-> "name",
                params_field |-> "parameters"]
          [] k = KeyJava ->
               [module |-> "ts_java",
                method_identifier |->
                    PyList(<<"public void exampleMethod(){",
                             "public static void exampleMethod(){",
                             "private void exampleMethod(){">>),
                class_identifier |-> PyStr("public class Example {"),
                import_identifiers |->
                    <<"import Scanner", "import java.util.Scanner",
                      "import java.util.*">>,
                docstring_type |-> "comment",
                name_field |-> "name",
                params_field |-> "formal_parameters"]
          [] k = KeyCpp ->
               [module |-> "ts_cpp",
                method_identifier |-> PyStr("void function_name(){"),
                class_identifier |-> PyStr("class Example{"),
                import_identifiers |->
                    <<"#include <iostream>", "#include <vector>",
                      "#include <string>">>,
                docstring_type |-> "comment",
                name_field |-> "declarator",
                params_field |-> "parameter_list"]
          [] k = KeyC ->
               [module |-> "tsc",
                method_identifier |-> PyStr("void function_name(){"),
                class_identifier |-> PyStr("struct Example{"),
                import_identifiers |->
                    <<"#include <stdio.h>", "#include <stdlib.h>",
                      "#include <string.h>">>,
                docstring_type |-> "comment",
                name_field |-> "declarator",
                params_field |-> "parameter_list"]
          [] k = KeyJavascript ->
               [module |-> "ts_javascript",
                method_identifier |-> PyStr("function exampleFunction(){"),
                class_identifier |-> PyStr("class declaration{"),
                import_identifiers |->
                    <<"import * as fs from \"fs\"",
                      "import * as path from \"path\"",
                      "import { example } from \"./example\"">>,
                docstring_type |-> "comment",
                name_field |-> "name",
                params_field |-> "formal_parameters"]]


(***************************************************************************)
(* The tree provider's node interface.                                     *)
(*                                                                         *)
(* A source is [enc, n, parent, kind, tok, nl]: enc says whether           *)
(* bytes(source_code, 'utf8') succeeds; nodes are 1..n in document         *)
(* (pre-)order with node 1 the root; parent[i] < i; kind[i] is the         *)
(* construct kind; tok[i] is the token a leaf contributes to the text; nl  *)
(* says whether every leaf sits on a line of its own (TRUE) or the whole   *)
(* text is one line (FALSE).                                               *)
(***************************************************************************)
\* node.type of a node of construct kind k, in a tree built for profile cfg
TypeOf(cfg, k) ==
    CASE k = "root" -> "module"
      [] k = "callable" ->
            IF cfg.method_identifier.py = "str"
            THEN cfg.method_identifier.v
            ELSE cfg.method_identifier.v[1]
      [] k = "class" -> cfg.class_identifier.v
      [] k = "import" -> cfg.import_identifiers[1]
      [] k = "comment" -> "comment"
      [] k = "string" -> "string"
      [] k = "expr" -> "expression_statement"
      [] k = "nameid" -> "identifier"
      [] k = "ident" -> "identifier"
      [] k = "fdecl" -> "function_declarator"
      [] k = "pdecl" -> "pointer_declarator"
      [] k = "punct" -> ";"
      [] k = "error" -> "ERROR"
      [] k = "assign" -> "assignment"
      [] k = "left" -> "identifier"
      [] k = "right" -> "integer"
      [] k = "decl" -> "declaration"
      [] k = "declid" -> "identifier"
      [] k = "type" -> "primitive_type"
      [] k = "lexdecl" -> "lexical_declaration"
      [] k = "vardecl" -> "variable_declaration"
      [] k = "vdecl" -> "variable_declarator"
      [] k = "vname" -> "identifier"
      [] k = "value" -> "number"
      [] OTHER -> "block"

\* the field name under which a node of kind k hangs off its parent
\* ("" when it is no field of its parent)
FieldOf(cfg, k) ==
    CASE k = "nameid" -> cfg.name_field
      [] k = "fdecl" -> "declarator"
      [] k = "pdecl" -> "declarator"
      [] k = "declid" -> "declarator"
      [] k = "left" -> "left"
      [] k = "right" -> "right"
      [] k = "type" -> "type"
      [] k = "vname" -> "name"
      [] k = "value" -> "value"
      [] OTHER -> ""

\* anonymous nodes (punctuation tokens) are not named
IsNamed(k) == k # "punct"

NodeType(p, s, i) == TypeOf(p.config, s.kind[i])
NodeField(p, s, i) == FieldOf(p.config, s.kind[i])

\* node.children, in order
Children(s, i) == SelectSeq([k \in 1..s.n |-> k], LAMBDA j : s.parent[j] = i)

RECURSIVE IsAncestorOrSelf(_, _, _)
\* a is j or an ancestor of j
IsAncestorOrSelf(s, a, j) ==
    IF j = a THEN TRUE
    ELSE IF j <= a THEN FALSE
    ELSE IsAncestorOrSelf(s, a, s.parent[j])

IsLeaf(s, i) == \A j \in 1..s.n : s.parent[j] # i

RECURSIVE Text(_, _)
RECURSIVE TextAll(_, _)
\* node.text.decode('utf-8'): the tokens of the leaves the node spans
Text(s, i) ==
    IF IsLeaf(s, i) THEN <<s.tok[i]>> ELSE TextAll(s, Children(s, i))
TextAll(s, kids) ==
    IF kids = <<>> THEN <<>>
    ELSE Text(s, Head(kids)) \o TextAll(s, Tail(kids))

RECURSIVE FirstLeaf(_, _)
FirstLeaf(s, i) ==
    IF IsLeaf(s, i) THEN i ELSE FirstLeaf(s, Head(Children(s, i)))

RECURSIVE LastLeaf(_, _)
LastLeaf(s, i) ==
    IF IsLeaf(s, i) THEN i
    ELSE LET kids == Children(s, i) IN LastLeaf(s, kids[Len(kids)])

\* the 0-based position of leaf j among the leaves of the text
LeafOrd(s, j) == Cardinality({l \in 1..(j - 1) : IsLeaf(s, l)})

\* the number of lines of the text
LineCount(s) ==
    IF s.nl THEN Cardinality({l \in 1..s.n : IsLeaf(s, l)}) ELSE 1

\* node.start_point, node.end_point: (row, column); a token is one column wide
StartPoint(s, i) ==
    LET k == LeafOrd(s, FirstLeaf(s, i)) IN IF s.nl THEN <<k, 0>> ELSE <<0, k>>
EndPoint(s, i) ==
    LET k == LeafOrd(s, LastLeaf(s, i)) IN
    IF s.nl THEN <<k, 1>> ELSE <<0, k + 1>>

\* node.child_by_field_name(f): the first child under field f, 0 for None
ChildByFieldName(p, s, i, f) ==
    LET hits == SelectSeq(Children(s, i), LAMBDA c : NodeField(p, s, c) = f)
    IN IF hits = <<>> THEN 0 ELSE Head(hits)

\* node.prev_named_sibling: the nearest earlier sibling that is named, 0 for None
PrevNamedSibling(s, i) ==
    LET sibs == {j \in 1..(i - 1) :
                    s.parent[j] = s.parent[i] /\ IsNamed(s.kind[j])}
    IN IF i = 1 \/ sibs = {} THEN 0
       ELSE CHOOSE j \in sibs : \A k \in sibs : k <= j

\* node.prev_sibling: the nearest earlier sibling, 0 for None
PrevSibling(s, i) ==
    LET sibs == {j \in 1..(i - 1) : s.parent[j] = s.parent[i]}
    IN IF i = 1 \/ sibs = {} THEN 0
       ELSE CHOOSE j \in sibs : \A k \in sibs : k <= j

\* root_node.has_error: the tree carries an ERROR node
HasError(s) == \E i \in 1..s.n : s.kind[i] = "error"

(***************************************************************************)
(* The extraction engine: MultiLanguageParser of treesitter_py.py.  A      *)
(* parser object p is [language, config].  Every record carries the node   *)
(* it was built from (node): the model's stand-in for the identity of the  *)
(* definition a record describes.                                          *)
(***************************************************************************)
\* _extract_name(node)
ExtractName(p, s, node) ==
    IF node = 0 THEN EmptyStr
    ELSE IF p.language \in {KeyCpp, KeyC}
    THEN IF NodeType(p, s, node) = "function_declarator"
         THEN LET ids == SelectSeq(Children(s, node),
                            LAMBDA c : NodeType(p, s, c) = "identifier")
              IN IF ids # <<>> THEN Text(s, Head(ids)) ELSE Text(s, node)
         ELSE Text(s, node)
    ELSE Text(s, node)

RECURSIVE PyDocLoop(_, _, _)
\* the loop of _find_docstring over node.children for python: "found" with
\* the text, "raise" for the IndexError of child.children[0], or "none"
PyDocLoop(p, s, kids) ==
    IF kids = <<>> THEN [state |-> "none", val |-> EmptyStr]
    ELSE LET child == Head(kids) IN
         IF NodeType(p, s, child) = "expression_statement"
         THEN IF Children(s, child) = <<>>
              THEN [state |-> "raise", val |-> EmptyStr]
              ELSE LET string_node == Head(Children(s, child)) IN
                   IF NodeType(p, s, string_node) = "string"
                   THEN [state |-> "found", val |-> Text(s, string_node)]
                   ELSE PyDocLoop(p, s, Tail(kids))
         ELSE PyDocLoop(p, s, Tail(kids))

\* the comment-style branch of _find_docstring
PrevSiblingDoc(p, s, node) ==
    LET prev_sibling == PrevNamedSibling(s, node) IN
    IF prev_sibling # 0
       /\ NodeType(p, s, prev_sibling) = p.config.docstring_type
    THEN Text(s, prev_sibling)
    ELSE EmptyStr

\* _find_docstring(node): [state, val]; state "raise" is the IndexError
FindDocstring(p, s, node) ==
    LET py == IF p.language = KeyPython
              THEN PyDocLoop(p, s, Children(s, node))
              ELSE [state |-> "none", val |-> EmptyStr]
    IN IF py.state # "none" THEN py
       ELSE [state |-> "ok", val |-> PrevSiblingDoc(p, s, node)]

\* the test of visit_function: node.type == self.config['method_identifier']
IsMethodNode(p, s, node) ==
    PyEqStr(NodeType(p, s, node), p.config.method_identifier)

\* the test of visit_class: node.type == self.config['class_identifier']
IsClassNode(p, s, node) ==
    PyEqStr(NodeType(p, s, node), p.config.class_identifier)

\* the test of visit_import: node.type in self.config['import_identifiers']
IsImportNode(p, s, node) ==
    PyInList(NodeType(p, s, node), p.config.import_identifiers)

\* MethodRecord with its two line arguments exchanged
MethodRecordSwapped(p, s, node) ==
    [name |-> ExtractName(p, s, ChildByFieldName(p, s, node, p.config.name_field)),
     doc_comment |-> FindDocstring(p, s, node).val,
     method_source_code |-> Text(s, node),
     start_line |-> EndPoint(s, node)[1],
     end_line |-> StartPoint(s, node)[1],
     node |-> node]

\* the TreesitterMethodNode built by visit_function
MethodRecord(p, s, node) ==
    [name |-> ExtractName(p, s, ChildByFieldName(p, s, node, p.config.name_field)),
     doc_comment |-> FindDocstring(p, s, node).val,
     method_source_code |-> Text(s, node),
     start_line |-> StartPoint(s, node)[1],
     end_line |-> EndPoint(s, node)[1],
     node |-> node]

RECURSIVE VisitFunction(_, _, _)
RECURSIVE VisitFunctionAll(_, _, _)
\* visit_function(node): what it appends, then its children's, in order
VisitFunction(p, s, node) ==
    (IF IsMethodNode(p, s, node) THEN <<MethodRecord(p, s, node)>> ELSE <<>>)
        \o VisitFunctionAll(p, s, Children(s, node))
VisitFunctionAll(p, s, kids) ==
    IF kids = <<>> THEN <<>>
    ELSE VisitFunction(p, s, Head(kids)) \o VisitFunctionAll(p, s, Tail(kids))

\* _extract_functions(node): functions = [] is fresh for every call
ExtractFunctions(p, s, node) == VisitFunction(p, s, node)

\* the dict built by visit_class
ClassRecord(p, s, node) ==
    [name |-> ExtractName(p, s, ChildByFieldName(p, s, node, p.config.name_field)),
     docstring |-> FindDocstring(p, s, node).val,
     methods |-> ExtractFunctions(p, s, node),
     start_point |-> StartPoint(s, node),
     end_point |-> EndPoint(s, node),
     node |-> node]

RECURSIVE VisitClass(_, _, _)
RECURSIVE VisitClassAll(_, _, _)
\* visit_class(node)
VisitClass(p, s, node) ==
    (IF IsClassNode(p, s, node) THEN <<ClassRecord(p, s, node)>> ELSE <<>>)
        \o VisitClassAll(p, s, Children(s, node))
VisitClassAll(p, s, kids) ==
    IF kids = <<>> THEN <<>>
    ELSE VisitClass(p, s, Head(kids)) \o VisitClassAll(p, s, Tail(kids))

\* _extract_classes(node)
ExtractClasses(p, s, node) == VisitClass(p, s, node)

RECURSIVE VisitImport(_, _, _)
RECURSIVE VisitImportAll(_, _, _)
\* visit_import(node)
VisitImport(p, s, node) ==
    (IF IsImportNode(p, s, node)
     THEN <<[type |-> NodeType(p, s, node), text |-> Text(s, node), node |-> node]>>
     ELSE <<>>)
        \o VisitImportAll(p, s, Children(s, node))
VisitImportAll(p, s, kids) ==
    IF kids = <<>> THEN <<>>
    ELSE VisitImport(p, s, Head(kids)) \o VisitImportAll(p, s, Tail(kids))

\* _extract_imports(node)
ExtractImports(p, s, node) == VisitImport(p, s, node)

\* the python branch of visit_variable
PyVariable(p, s, node) ==
    LET left_node == ChildByFieldName(p, s, node, "left")
        right_node == ChildByFieldName(p, s, node, "right")
    IN IF NodeType(p, s, node) = "assignment" /\ left_node # 0 /\ right_node # 0
       THEN <<[name |-> Text(s, left_node), value |-> Text(s, right_node),
               node |-> node]>>
       ELSE <<>>

\* the java / cpp / c branch of visit_variable
DeclVariable(p, s, node) ==
    LET name_node == ChildByFieldName(p, s, node, "declarator")
        type_node == ChildByFieldName(p, s, node, "type")
    IN IF NodeType(p, s, node) = "declaration" /\ name_node # 0
       THEN <<[name |-> Text(s, name_node),
               type |-> IF type_node # 0 THEN Text(s, type_node) ELSE EmptyStr,
               node |-> node]>>
       ELSE <<>>

RECURSIVE JsDeclarators(_, _, _)
\* the loop over the declarators of one javascript declaration statement
JsDeclarators(p, s, kids) ==
    IF kids = <<>> THEN <<>>
    ELSE LET declarator == Head(kids)
             name_node == ChildByFieldName(p, s, declarator, "name")
             value_node == ChildByFieldName(p, s, declarator, "value")
         IN (IF NodeType(p, s, declarator) = "variable_declarator" /\ name_node # 0
             THEN <<[name |-> Text(s, name_node),
                     value |-> IF value_node # 0 THEN Text(s, value_node)
                               ELSE EmptyStr,
                     node |-> declarator]>>
             ELSE <<>>)
            \o JsDeclarators(p, s, Tail(kids))

\* JsVariable reading only the first child of a declaration statement
JsVariableFirstOnly(p, s, node) ==
    IF NodeType(p, s, node) \in {"variable_declaration", "lexical_declaration"}
       /\ Children(s, node) # <<>>
    THEN JsDeclarators(p, s, <<Head(Children(s, node))>>)
    ELSE <<>>

\* the javascript branch of visit_variable
JsVariable(p, s, node) ==
    IF NodeType(p, s, node) \in {"variable_declaration", "lexical_declaration"}
    THEN JsDeclarators(p, s, Children(s, node))
    ELSE <<>>

RECURSIVE VisitVariable(_, _, _)
RECURSIVE VisitVariableAll(_, _, _)
\* visit_variable(node)
VisitVariable(p, s, node) ==
    (IF p.language \in {KeyPython} THEN PyVariable(p, s, node)
     ELSE IF p.language \in {KeyJava, KeyCpp, KeyC} THEN DeclVariable(p, s, node)
     ELSE IF p.language = KeyJavascript THEN JsVariable(p, s, node)
     ELSE <<>>)
        \o VisitVariableAll(p, s, Children(s, node))
VisitVariableAll(p, s, kids) ==
    IF kids = <<>> THEN <<>>
    ELSE VisitVariable(p, s, Head(kids)) \o VisitVariableAll(p, s, Tail(kids))

\* _extract_variables(node)
ExtractVariables(p, s, node) == VisitVariable(p, s, node)

\* an exception escapes one of the four extractions: the only raising
\* statement is child.children[0] of _find_docstring, reached for every
\* class- and callable-tagged node the visits meet
ExtractionRaises(p, s) ==
    \E node \in 1..s.n :
        /\ IsClassNode(p, s, node) \/ IsMethodNode(p, s, node)
        /\ FindDocstring(p, s, node).state = "raise"

\* parse(source_code): the whole try block and its except clause
ParseOutcome(p, s) ==
    IF ~s.enc \/ ExtractionRaises(p, s)
    THEN [kind |-> "Exception", language |-> p.language]
    ELSE [kind |-> "result",
          imports |-> ExtractImports(p, s, 1),
          classes |-> ExtractClasses(p, s, 1),
          functions |-> ExtractFunctions(p, s, 1),
          variables |-> ExtractVariables(p, s, 1)]

(***************************************************************************)
(* Inputs: language ids and sources.                                       *)
(***************************************************************************)
IdPythonMixed == <<"P", "y", "t", "h", "o", "n">>
IdRuby == <<"r", "u", "b", "y">>

\* the language ids callers pass to MultiLanguageParser(...)
LanguageIds == ProfileKeys \cup {IdPythonMixed, IdRuby, EmptyStr}

\* the token of the leaf at node i of a generated tree
TokenNames == <<"t1", "t2", "t3", "t4", "t5", "t6", "t7", "t8">>

\* parent vectors of the ordered trees with n nodes numbered in preorder: the
\* parent of node i is node i - 1 or one of its ancestors
ParentVectors(n) ==
    {pv \in [1..n -> 0..(n - 1)] :
        /\ pv[1] = 0
        /\ \A i \in 2..n :
              /\ pv[i] \in 1..(i - 1)
              /\ IsAncestorOrSelf([parent |-> pv], pv[i], i - 1)}

\* the well-encoded sources of exactly n nodes over the construct kinds Kinds
SourcesOfSize(Kinds, n) ==
    {[enc |-> TRUE, n |-> n, parent |-> pv,
      kind |-> [i \in 1..n |-> IF i = 1 THEN "root" ELSE kv[i]],
      tok |-> [i \in 1..n |-> TokenNames[i]],
      nl |-> nl] :
        pv \in ParentVectors(n), kv \in [2..n -> Kinds], nl \in BOOLEAN}

\* a text that bytes(source_code, 'utf8') rejects (a lone surrogate)
UnencodableSource ==
    [enc |-> FALSE, n |-> 1, parent |-> <<0>>, kind |-> <<"root">>,
     tok |-> <<"t1">>, nl |-> FALSE]

\* every source of at most MaxNodes nodes over Kinds, and the unencodable one
GeneratedSources(Kinds) ==
    UNION {SourcesOfSize(Kinds, n) : n \in 1..MaxNodes} \cup {UnencodableSource}

\* a source written out node by node
Source(parent, kind, tok, nl) ==
    [enc |-> TRUE, n |-> Len(parent), parent |-> parent, kind |-> kind,
     tok |-> tok, nl |-> nl]

\* python:  def foo():
\*              """doc"""
\*              return 1
ScenarioPyDef ==
    Source(<<0, 1, 2, 2, 4, 5, 4>>,
           <<"root", "callable", "nameid", "block", "expr", "string", "block">>,
           <<"", "", "foo", "", "", "\"\"\"doc\"\"\"", "return 1">>, TRUE)

\* java:  class Example {
\*            /** doc */
\*            public void bar(){}
\*        }
ScenarioJavaBar ==
    Source(<<0, 1, 2, 2, 4, 4, 6, 6>>,
           <<"root", "class", "nameid", "block", "comment", "callable",
             "nameid", "block">>,
           <<"", "", "Example", "", "/** doc */", "", "bar", "(){}">>, TRUE)

\* cpp / c:  int *compute(int x){ return &x; }
ScenarioCompute ==
    Source(<<0, 1, 2, 2, 4, 4, 6, 6, 2>>,
           <<"root", "callable", "type", "pdecl", "punct", "fdecl", "declid",
             "block", "block">>,
           <<"", "", "int", "", "*", "", "compute", "(int x)",
             "{ return &x; }">>, FALSE)

\* c:  int f() {        (the closing brace is missing: the tree has an ERROR node)
ScenarioUnbalanced ==
    Source(<<0, 1, 2, 2, 4, 2>>,
           <<"root", "callable", "type", "fdecl", "declid", "error">>,
           <<"", "", "int", "", "f", "{">>, FALSE)

\* javascript:  const a = 5;
ScenarioJsConst ==
    Source(<<0, 1, 2, 3, 3>>,
           <<"root", "lexdecl", "vdecl", "vname", "value">>,
           <<"", "", "", "a", "5">>, FALSE)

\* javascript:  const a = function(){ let b = 1; }, c = 2;
ScenarioJsNested ==
    Source(<<0, 1, 2, 3, 3, 5, 6, 7, 7, 2, 10, 10>>,
           <<"root", "lexdecl", "vdecl", "vname", "value", "lexdecl", "vdecl",
             "vname", "value", "vdecl", "vname", "value">>,
           <<"", "", "", "a", "", "", "", "b", "1", "", "c", "2">>, FALSE)

\* python:  a definition node whose first statement is the expression x and
\* whose second statement is the string literal """late"""
ScenarioPyLateDoc ==
    Source(<<0, 1, 2, 2, 4, 2, 6>>,
           <<"root", "callable", "nameid", "expr", "ident", "expr", "string">>,
           <<"", "", "foo", "", "x", "", "\"\"\"late\"\"\"">>, TRUE)

\* python:  def outer():
\*              def inner(): pass
\*          def after(): pass
\* (one token a line)
ScenarioPyNested ==
    Source(<<0, 1, 2, 2, 4, 1, 6>>,
           <<"root", "callable", "nameid", "callable", "nameid", "callable",
             "nameid">>,
           <<"", "", "outer", "", "inner", "", "after">>, TRUE)

\* javascript:  let x, y = 1;
ScenarioJsLet ==
    Source(<<0, 1, 2, 3, 2, 5, 5>>,
           <<"root", "lexdecl", "vdecl", "vname", "vdecl", "vname", "value">>,
           <<"", "", "", "x", "", "y", "1">>, FALSE)

\* python:  a string literal node directly followed, as its next sibling, by
\* the definition of foo, whose body holds no string
ScenarioPyPrevString ==
    Source(<<0, 1, 1, 3, 3>>,
           <<"root", "string", "callable", "nameid", "block">>,
           <<"", "\"\"\"s\"\"\"", "", "foo", "pass">>, TRUE)

\* python:  the definition of foo with an expression statement node that
\* has no children among its children
ScenarioPyEmptyExpr ==
    Source(<<0, 1, 2, 2>>,
           <<"root", "callable", "nameid", "expr">>,
           <<"", "", "foo", "">>, TRUE)

\* python:  x: int
\* an annotated name without a value: an assignment node with a left and a
\* type field and no right field
ScenarioPyAnnotated ==
    Source(<<0, 1, 2, 3, 3>>,
           <<"root", "expr", "assign", "left", "type">>,
           <<"", "", "", "x", "int">>, FALSE)

ScenarioSources ==
    {ScenarioPyDef, ScenarioJavaBar, ScenarioCompute, ScenarioUnbalanced,
     ScenarioJsConst, ScenarioJsNested, ScenarioPyLateDoc, ScenarioPyNested,
     ScenarioJsLet, ScenarioPyPrevString, ScenarioPyEmptyExpr,
     ScenarioPyAnnotated, UnencodableSource}

\* the sources and the language ids of the calls that share parser objects
ApiSources ==
    {ScenarioPyDef, ScenarioJavaBar, ScenarioPyNested, ScenarioUnbalanced}
ApiLanguageIds == {KeyPython, IdPythonMixed, KeyJava, IdRuby}

\* the construct kinds of the generated sources
StructKinds == {"callable", "class", "import", "comment", "nameid", "error"}

\* the sources the parse calls draw from
StructSources == GeneratedSources(StructKinds) \cup ScenarioSources

(***************************************************************************)
(* State.                                                                  *)
(***************************************************************************)
VARIABLES
    \* the class attribute MultiLanguageParser.LANGUAGE_CONFIGS
    LANGUAGE_CONFIGS,
    \* per parser slot, what the constructor call left: [status, id, language,
    \* config]; status is "none" (no call yet), "ValueError" or "Exception"
    \* (the constructor raised: no object exists) or "ready"
    parsers,
    \* per parser slot, its latest parse call: the source and what it returned
    calls,
    \* per parser slot, the parse call in progress on it, between two of its
    \* four extractions: the source, the extraction that runs next and the
    \* lists already extracted
    frames,
    \* process(folder_path): where the call is ("idle", "walk", "finish",
    \* "returned"), the files os.walk yields, the index of the next file
    pc, folder, pos,
    \* the locals of process: documentation, file_count, error_count and
    \* relative_path ("unbound" until the first assignment)
    documentation, file_count, error_count, relative_path,
    \* what process returned
    result,
    \* observation: the files parser.parse was called for, and the files an
    \* error was counted for, in order
    parsedLog, errorLog,
    \* the latest JavaParser._extract_parameters call: its method node and
    \* the list it returned
    javaCall,
    \* the /generate-docs request being handled and what the handler did
    \* with it
    request

parserVars == <<LANGUAGE_CONFIGS, parsers, calls, frames>>

processVars == <<pc, folder, pos, documentation, file_count, error_count,
                 relative_path, result, parsedLog, errorLog>>

javaVars == <<javaCall>>
handlerVars == <<request>>

vars == <<LANGUAGE_CONFIGS, parsers, calls, frames, pc, folder, pos, documentation,
          file_count, error_count, relative_path, result, parsedLog, errorLog,
          javaCall, request>>

Parsers == 1..NumParsers

NoProfile == [module |-> "none"]
NoParser == [status |-> "none", id |-> EmptyStr, language |-> EmptyStr,
             config |-> NoProfile]
NoSource == [enc |-> FALSE, n |-> 0]
NoCall == [src |-> NoSource, out |-> [kind |-> "none"]]
NoFrame == [stage |-> "none"]
NoJavaCall == [state |-> "none"]
NoRequest == [state |-> "none"]

(***************************************************************************)
(* Operations of the parser.                                               *)
(***************************************************************************)
\* NewParser falling back to the python profile for an id it does not know
NewParserDefaulting(id, setOk) ==
    LET language == IF Lower(id) \in DOMAIN LANGUAGE_CONFIGS
                    THEN Lower(id) ELSE KeyPython
    IN IF ~setOk
       THEN [status |-> "Exception", id |-> id, language |-> language,
             config |-> NoProfile]
       ELSE [status |-> "ready", id |-> id, language |-> language,
             config |-> LANGUAGE_CONFIGS[language]]

\* NewParser storing the id as it was passed, looked up by its lower-case form
NewParserKeepCase(id, setOk) ==
    IF Lower(id) \notin DOMAIN LANGUAGE_CONFIGS
    THEN [status |-> "ValueError", id |-> id, language |-> id,
          config |-> NoProfile]
    ELSE IF ~setOk
    THEN [status |-> "Exception", id |-> id, language |-> id,
          config |-> NoProfile]
    ELSE [status |-> "ready", id |-> id, language |-> id,
          config |-> LANGUAGE_CONFIGS[Lower(id)]]

\* MultiLanguageParser(language): __init__ and _initialize_parser; setOk says
\* whether the provider's set_language accepts the grammar
NewParser(id, setOk) ==
    LET language == Lower(id) IN
    IF language \notin DOMAIN LANGUAGE_CONFIGS
    THEN [status |-> "ValueError", id |-> id, language |-> language,
          config |-> NoProfile]
    ELSE IF ~setOk
    THEN [status |-> "Exception", id |-> id, language |-> language,
          config |-> NoProfile]
    ELSE [status |-> "ready", id |-> id, language |-> language,
          config |-> LANGUAGE_CONFIGS[language]]

\* ParseCall with the functions list kept on the object between calls
ParseCallStale(i, s) ==
    LET out == ParseOutcome(parsers[i], s) IN
    IF out.kind = "result" /\ calls[i].out.kind = "result"
    THEN [out EXCEPT !.functions = calls[i].out.functions \o out.functions]
    ELSE out

\* parser.parse(source_code) on the object of slot i
ParseCall(i, s) == ParseOutcome(parsers[i], s)

Construct(i, id, setOk) ==
    /\ parsers[i].status = "none"
    /\ parsers' = [parsers EXCEPT ![i] = NewParser(id, setOk)]
    /\ UNCHANGED <<LANGUAGE_CONFIGS, calls, frames>>
    /\ UNCHANGED <<processVars, javaVars, handlerVars>>

Parse(i, s) ==
    /\ parsers[i].status = "ready"
    /\ calls' = [calls EXCEPT ![i] = [src |-> s, out |-> ParseCall(i, s)]]
    /\ UNCHANGED <<LANGUAGE_CONFIGS, parsers, frames>>
    /\ UNCHANGED <<processVars, javaVars, handlerVars>>

\* the caller drops the object (or the failed attempt) of slot i
Release(i) ==
    /\ parsers[i].status # "none"
    /\ parsers' = [parsers EXCEPT ![i] = NoParser]
    /\ calls' = [calls EXCEPT ![i] = NoCall]
    /\ UNCHANGED <<LANGUAGE_CONFIGS, frames>>
    /\ UNCHANGED <<processVars, javaVars, handlerVars>>

Init ==
    /\ LANGUAGE_CONFIGS = ProfileTable
    /\ parsers = [i \in Parsers |-> NoParser]
    /\ calls = [i \in Parsers |-> NoCall]
    /\ frames = [i \in Parsers |-> NoFrame]
    /\ pc = "idle"
    /\ folder = <<>>
    /\ pos = 1
    /\ documentation = EmptyDict
    /\ file_count = 0
    /\ error_count = 0
    /\ relative_path = "unbound"
    /\ result = EmptyDict
    /\ parsedLog = <<>>
    /\ errorLog = <<>>
    /\ javaCall = NoJavaCall
    /\ request = NoRequest

\* the first parse call on the object of slot 1
ParseFirst ==
    /\ calls[1] = NoCall
    /\ \E s \in StructSources : Parse(1, s)

\* one parser object, which parses one source of the generated family and
\* is dropped
Next ==
    \/ \E id \in LanguageIds, setOk \in BOOLEAN : Construct(1, id, setOk)
    \/ ParseFirst
    \/ Release(1)

Spec == Init /\ [][Next]_vars

\* several parser objects, constructed, used for any number of parse calls
\* and dropped in any interleaving
NextApi ==
    \/ \E i \in Parsers, id \in ApiLanguageIds, setOk \in BOOLEAN :
          Construct(i, id, setOk)
    \/ \E i \in Parsers, s \in ApiSources : Parse(i, s)
    \/ \E i \in Parsers : Release(i)

SpecApi == Init /\ [][NextApi]_vars

(***************************************************************************)
(* Interleaved parse calls.  A parse call on slot i is cut at the points   *)
(* between its four extractions, where another thread's call may run: the  *)
(* lists it has extracted so far are locals of the call (the imports,      *)
(* classes, functions and variables lists are created inside each          *)
(* _extract_* call and held by the dict under construction).               *)
(***************************************************************************)
\* the sources and the language ids of the interleaved calls
ConcSources == {ScenarioPyEmptyExpr, ScenarioJavaBar, UnencodableSource}
ConcLanguageIds == {KeyPython, KeyCpp}

\* _extract_classes raises: _find_docstring raises for a class node or for
\* a callable node inside one
ClassesRaise(p, s) ==
    \E c \in 1..s.n :
        /\ IsClassNode(p, s, c)
        /\ \/ FindDocstring(p, s, c).state = "raise"
           \/ \E m \in 1..s.n :
                 /\ IsAncestorOrSelf(s, c, m)
                 /\ IsMethodNode(p, s, m)
                 /\ FindDocstring(p, s, m).state = "raise"

\* _extract_functions(tree.root_node) raises
FunctionsRaise(p, s) ==
    \E m \in 1..s.n :
        IsMethodNode(p, s, m) /\ FindDocstring(p, s, m).state = "raise"

\* the exception parse raises for the object of slot i
ParseException(i) == [kind |-> "Exception", language |-> parsers[i].language]

\* FrameLists reading the lists of another call in progress, when there is
\* one, instead of the call's own
FrameListsShared(i) ==
    LET others == {j \in Parsers : j # i /\ frames[j].stage # "none"} IN
    IF others = {} THEN frames[i]
    ELSE frames[CHOOSE j \in others : \A k \in others : j <= k]

\* the lists the call in progress on slot i has extracted so far: its own
FrameLists(i) == frames[i]

\* parse is entered on slot i: bytes(source_code, 'utf8') and parser.parse
ParseBegin(i, s) ==
    /\ parsers[i].status = "ready"
    /\ frames[i] = NoFrame
    /\ IF ~s.enc
       THEN /\ calls' = [calls EXCEPT ![i] = [src |-> s, out |-> ParseException(i)]]
            /\ UNCHANGED frames
       ELSE /\ calls' = [calls EXCEPT ![i] = NoCall]
            /\ frames' = [frames EXCEPT ![i] =
                             [stage |-> "imports", src |-> s, imports |-> <<>>,
                              classes |-> <<>>, functions |-> <<>>]]
    /\ UNCHANGED <<LANGUAGE_CONFIGS, parsers>>
    /\ UNCHANGED <<processVars, javaVars, handlerVars>>

\* one of the first three extractions of the call on slot i runs and returns
ExtractStep(i) ==
    LET f == frames[i]
        p == parsers[i]
    IN /\ f.stage \in {"imports", "classes", "functions"}
       /\ f.stage = "classes" => ~ClassesRaise(p, f.src)
       /\ f.stage = "functions" => ~FunctionsRaise(p, f.src)
       /\ frames' = [frames EXCEPT ![i] =
             CASE f.stage = "imports" ->
                    [f EXCEPT !.stage = "classes",
                              !.imports = ExtractImports(p, f.src, 1)]
               [] f.stage = "classes" ->
                    [f EXCEPT !.stage = "functions",
                              !.classes = ExtractClasses(p, f.src, 1)]
               [] f.stage = "functions" ->
                    [f EXCEPT !.stage = "variables",
                              !.functions = ExtractFunctions(p, f.src, 1)]]
       /\ UNCHANGED <<LANGUAGE_CONFIGS, parsers, calls>>
       /\ UNCHANGED <<processVars, javaVars, handlerVars>>

\* an extraction of the call on slot i raises: the except clause of parse
ParseRaise(i) ==
    LET f == frames[i]
        p == parsers[i]
    IN /\ \/ f.stage = "classes" /\ ClassesRaise(p, f.src)
          \/ f.stage = "functions" /\ FunctionsRaise(p, f.src)
       /\ calls' = [calls EXCEPT ![i] = [src |-> f.src, out |-> ParseException(i)]]
       /\ frames' = [frames EXCEPT ![i] = NoFrame]
       /\ UNCHANGED <<LANGUAGE_CONFIGS, parsers>>
       /\ UNCHANGED <<processVars, javaVars, handlerVars>>

\* the last extraction runs and parse returns the dict
ParseReturn(i) ==
    LET f == frames[i]
        p == parsers[i]
    IN /\ f.stage = "variables"
       /\ calls' = [calls EXCEPT ![i] =
             [src |-> f.src,
              out |-> [kind |-> "result",
                       imports |-> FrameLists(i).imports,
                       classes |-> FrameLists(i).classes,
                       functions |-> FrameLists(i).functions,
                       variables |-> ExtractVariables(p, f.src, 1)]]]
       /\ frames' = [frames EXCEPT ![i] = NoFrame]
       /\ UNCHANGED <<LANGUAGE_CONFIGS, parsers>>
       /\ UNCHANGED <<processVars, javaVars, handlerVars>>

\* the object of slot i is dropped when no call runs on it
ReleaseIdle(i) ==
    /\ frames[i] = NoFrame
    /\ Release(i)

NextConc ==
    \/ \E i \in Parsers, id \in ConcLanguageIds : Construct(i, id, TRUE)
    \/ \E i \in Parsers, s \in ConcSources : ParseBegin(i, s)
    \/ \E i \in Parsers : ExtractStep(i)
    \/ \E i \in Parsers : ParseRaise(i)
    \/ \E i \in Parsers : ParseReturn(i)
    \/ \E i \in Parsers : ReleaseIdle(i)

SpecConc == Init /\ [][NextConc]_vars

(***************************************************************************)
(* The batch driver: process(folder_path) of flask_app_2.py.               *)
(*                                                                         *)
(* A file of the walk is [ext, dotted, readable, content]: the extension   *)
(* os.path.splitext gives, whether a component of its path starts with a   *)
(* dot, whether open/read succeeds, and the source it holds.  A file's     *)
(* index in the walk stands for its relative path.                         *)
(***************************************************************************)
ExtPy == <<".", "p", "y">>
ExtJava == <<".", "j", "a", "v", "a">>
ExtCpp == <<".", "c", "p", "p">>
ExtC == <<".", "c">>
ExtH == <<".", "h">>
ExtHpp == <<".", "h", "p", "p">>
ExtJs == <<".", "j", "s">>
ExtUpperC == <<".", "C">>
ExtTxt == <<".", "t", "x", "t">>

Unknown == <<"u", "n", "k", "n", "o", "w", "n">>

\* extension_to_language
ExtensionToLanguage ==
    [e \in {ExtPy, ExtJava, ExtCpp, ExtC, ExtH, ExtHpp, ExtJs} |->
        CASE e = ExtPy -> KeyPython
          [] e = ExtJava -> KeyJava
          [] e = ExtCpp -> KeyCpp
          [] e = ExtC -> KeyC
          [] e = ExtH -> KeyC
          [] e = ExtHpp -> KeyCpp
          [] e = ExtJs -> KeyJavascript]

\* get_language_from_extension, after os.path.splitext
GetLanguageFromExtension(ext) ==
    LET e == Lower(ext) IN
    IF e \in DOMAIN ExtensionToLanguage THEN ExtensionToLanguage[e] ELSE Unknown

\* the files a walk may meet
FileKinds ==
    {[ext |-> e, dotted |-> d, readable |-> r,
      content |-> CASE e = ExtPy -> ScenarioPyDef
                    [] e = ExtUpperC -> ScenarioUnbalanced
                    [] OTHER -> ScenarioJsConst] :
        e \in {ExtPy, ExtUpperC, ExtTxt}, d \in BOOLEAN, r \in BOOLEAN}

\* the walks of at most MaxFiles files
Folders == UNION {[1..k -> FileKinds] : k \in 0..MaxFiles}

\* LLM(): llm.py __init__ raises ValueError without an API key, and with one
\* it raises AttributeError at self.CodeSearchEngine(), an attribute the
\* class does not have; no path returns an object
LLMInit(hasKey) == IF ~hasKey THEN "ValueError" ELSE "AttributeError"

\* llm.generate_structured_documentation(language, methods, context): every
\* path returns a non-empty dict; method.get(...) raises AttributeError on a
\* TreesitterMethodNode, which the method's own except clause turns into a
\* failure dict
GenerateStructuredDocumentation(methods, genOk) ==
    IF methods # <<>> THEN [success |-> FALSE, error |-> "AttributeError"]
    ELSE IF genOk THEN [success |-> TRUE, documentation |-> "structured_docs"]
    ELSE [success |-> FALSE, error |-> "Failed to generate documentation"]

\* documentation[key] = entry
DictPut(d, key, entry) ==
    [k \in DOMAIN d \cup {key} |-> IF k = key THEN entry ELSE d[k]]

\* utils.CodeUtils.format_documentation(docs)
FormatDocumentation(docs) ==
    LET kept == {k \in DOMAIN docs : DictGet(docs[k], "status") = "success"} IN
    [metadata |-> [version |-> "1.0"],
     files |-> [k \in kept |->
                  [language |-> docs[k].language,
                   documentation |-> docs[k].documentation,
                   similar_patterns |-> docs[k].similar_patterns]]]

\* whether the loop skips the file before its try block
Skipped(f) == f.dotted \/ GetLanguageFromExtension(f.ext) = Unknown

\* process, from its entry to the end of LLM(): lines 47-54, and the outer
\* except clause when LLM() raises
ProcessEnter(f, hasKey) ==
    /\ pc = "idle"
    /\ folder' = f
    /\ documentation' = EmptyDict
    /\ file_count' = 0
    /\ error_count' = 0
    /\ relative_path' = "unbound"
    /\ pos' = 1
    /\ parsedLog' = <<>>
    /\ errorLog' = <<>>
    /\ IF LLMInit(hasKey) = "ok"
       THEN /\ pc' = IF f = <<>> THEN "finish" ELSE "walk"
            /\ result' = EmptyDict
       ELSE /\ pc' = "returned"
            /\ result' = [success |-> FALSE, error |-> LLMInit(hasKey)]
    /\ UNCHANGED <<parserVars, javaVars>>

\* process called by a caller other than the request handler
ProcessStart(f, hasKey) == ProcessEnter(f, hasKey) /\ UNCHANGED handlerVars

\* the except clause of the loop body: count and log the error, continue
CountError(times) ==
    /\ error_count' = error_count + times
    /\ errorLog' = errorLog \o [k \in 1..times |-> pos]

\* one iteration of the loop over the files: lines 58-119.  setOk: the
\* provider accepts the grammar; llm: what asyncio.run(...) does ("raise",
\* "fail" or "ok")
WalkFile(setOk, llm) ==
    /\ pc = "walk"
    /\ LET f == folder[pos]
           language == GetLanguageFromExtension(f.ext)
           parser == NewParser(language, setOk)
           parsed_code == ParseOutcome(parser, f.content)
           doc_result == GenerateStructuredDocumentation(parsed_code.functions,
                                                         llm = "ok")
       IN IF Skipped(f)
          THEN UNCHANGED <<documentation, file_count, error_count,
                           relative_path, parsedLog, errorLog>>
          ELSE IF ~f.readable \/ parser.status # "ready"
          THEN /\ CountError(1)
               /\ UNCHANGED <<documentation, file_count, relative_path, parsedLog>>
          ELSE /\ parsedLog' = Append(parsedLog, pos)
               /\ IF parsed_code.kind = "Exception" \/ llm = "raise"
                  THEN /\ CountError(1)
                       /\ UNCHANGED <<documentation, file_count, relative_path>>
                  ELSE IF Truthy(doc_result)
                  THEN /\ relative_path' = pos
                       /\ documentation' =
                              DictPut(documentation, pos,
                                      [language |-> language,
                                       documentation |-> doc_result,
                                       similar_patterns |-> <<>>])
                       /\ file_count' = file_count + 1
                       /\ UNCHANGED <<error_count, errorLog>>
                  ELSE \* error_count += 1, then the warning reads
                       \* relative_path: unbound, it raises into the except
                       \* clause, which counts the file again
                       /\ CountError(IF relative_path = "unbound" THEN 2 ELSE 1)
                       /\ UNCHANGED <<documentation, file_count, relative_path>>
    /\ pos' = pos + 1
    /\ pc' = IF pos + 1 > Len(folder) THEN "finish" ELSE "walk"
    /\ UNCHANGED <<folder, result>>
    /\ UNCHANGED <<parserVars, javaVars, handlerVars>>

\* format and save, and return: lines 121-150.  mkOk: os.makedirs succeeds;
\* saveOk: save_documentation returns True
Finish(mkOk, saveOk) ==
    /\ pc = "finish"
    /\ pc' = "returned"
    /\ result' =
          IF ~mkOk THEN [success |-> FALSE, error |-> "OSError"]
          ELSE IF saveOk
          THEN [success |-> TRUE, files_processed |-> file_count,
                errors |-> error_count, output_file |-> "documentation.json",
                documentation |-> FormatDocumentation(documentation)]
          ELSE [success |-> FALSE, error |-> "Failed to save documentation",
                files_processed |-> file_count, errors |-> error_count]
    /\ UNCHANGED <<folder, pos, documentation, file_count, error_count,
                   relative_path, parsedLog, errorLog>>
    /\ UNCHANGED <<parserVars, javaVars, handlerVars>>

\* the caller has taken the returned dict; the locals are gone
ProcessLeave ==
    /\ pc = "returned"
    /\ pc' = "idle"
    /\ folder' = <<>>
    /\ pos' = 1
    /\ documentation' = EmptyDict
    /\ file_count' = 0
    /\ error_count' = 0
    /\ relative_path' = "unbound"
    /\ result' = EmptyDict
    /\ parsedLog' = <<>>
    /\ errorLog' = <<>>
    /\ UNCHANGED <<parserVars, javaVars>>

\* the returned dict taken by a caller other than the request handler
ProcessReturn == ProcessLeave /\ UNCHANGED handlerVars

\* process as the code runs it
NextProcess ==
    \/ \E f \in Folders, hasKey \in BOOLEAN : ProcessStart(f, hasKey)
    \/ ProcessReturn

SpecProcess == Init /\ [][NextProcess]_vars

\* the walk as it would run had LLM() returned an object: the state right
\* after line 54, for any folder
InitWalk ==
    /\ LANGUAGE_CONFIGS = ProfileTable
    /\ parsers = [i \in Parsers |-> NoParser]
    /\ calls = [i \in Parsers |-> NoCall]
    /\ frames = [i \in Parsers |-> NoFrame]
    /\ folder \in Folders
    /\ pc = IF folder = <<>> THEN "finish" ELSE "walk"
    /\ pos = 1
    /\ documentation = EmptyDict
    /\ file_count = 0
    /\ error_count = 0
    /\ relative_path = "unbound"
    /\ result = EmptyDict
    /\ parsedLog = <<>>
    /\ errorLog = <<>>
    /\ javaCall = NoJavaCall
    /\ request = NoRequest

NextWalk ==
    \/ \E setOk \in BOOLEAN, llm \in {"raise", "fail", "ok"} : WalkFile(setOk, llm)
    \/ \E mkOk \in BOOLEAN, saveOk \in BOOLEAN : Finish(mkOk, saveOk)

SpecWalk == InitWalk /\ [][NextWalk]_vars

(***************************************************************************)
(* Properties.                                                             *)
(***************************************************************************)
Range(seq) == {seq[k] : k \in DOMAIN seq}

\* the parse calls that returned a result
Returned == {i \in Parsers : calls[i].out.kind = "result"}

\* p is at or before q in the text
PointLeq(p, q) == p[1] < q[1] \/ (p[1] = q[1] /\ p[2] <= q[2])

\* the records of list l stand in document order in source s
InDocumentOrder(s, l) ==
    \A a, b \in DOMAIN l :
        a < b => PointLeq(StartPoint(s, l[a].node), StartPoint(s, l[b].node))

\* C1: no callable record listed in the methods of a class record also
\* appears in the file-level functions list of the same parse result.
C1_Ownership ==
    \A i \in Returned :
        \A c \in Range(calls[i].out.classes) :
            \A m \in Range(c.methods) :
                \A f \in Range(calls[i].out.functions) : f.node # m.node

\* C2: a constructor call with a language id that names none of the five
\* profiles (ids are looked up by their lower-cased form) ends in ValueError:
\* no parser object, no profile, and no parse result for that slot.
C2_UnsupportedIsConfigurationError ==
    \A i \in Parsers :
        (parsers[i].status # "none" /\ Lower(parsers[i].id) \notin ProfileKeys)
            => /\ parsers[i].status = "ValueError"
               /\ parsers[i].config = NoProfile
               /\ calls[i] = NoCall

\* C2 witness: the id ruby was passed and the constructor raised ValueError.
C2_Witness ==
    \E i \in Parsers : parsers[i].id = IdRuby /\ parsers[i].status = "ValueError"

\* C3: a parse of a source whose tree could not be built cleanly (the text
\* cannot be encoded, or the tree carries an ERROR node) ends in the
\* exception outcome carrying the language, and returns no result.
C3_NoResultForFailedParse ==
    \A i \in Parsers :
        (calls[i].out.kind # "none"
           /\ (~calls[i].src.enc \/ HasError(calls[i].src)))
            => /\ calls[i].out.kind = "Exception"
               /\ calls[i].out.language = parsers[i].language

C5_DocumentOrder ==
    \A i \in Returned :
        LET s == calls[i].src
            out == calls[i].out
        IN /\ InDocumentOrder(s, out.imports)
           /\ InDocumentOrder(s, out.classes)
           /\ InDocumentOrder(s, out.functions)
           /\ InDocumentOrder(s, out.variables)
           /\ \A c \in Range(out.classes) : InDocumentOrder(s, c.methods)

\* a well-formed input: the text encodes and its tree has no ERROR node
WellFormed(s) == s.enc /\ ~HasError(s)

\* the (start line, end line) span a callable record carries
FunctionSpan(r) == <<r.start_line, r.end_line>>

\* a line span lies within the lines of the text of s
SpanInText(s, sp) == 0 <= sp[1] /\ sp[1] <= sp[2] /\ sp[2] < LineCount(s)

\* two line spans share no line
SpansDisjoint(sp, sq) == sp[2] < sq[1] \/ sq[2] < sp[1]

\* the (start point, end point) span of a class record lies within the text
PointsInText(s, c) ==
    /\ PointLeq(<<0, 0>>, c.start_point)
    /\ PointLeq(c.start_point, c.end_point)
    /\ c.end_point[1] < LineCount(s)

\* the records at positions a and b of list l are at the same nesting
\* level: neither was built from a node nested in the other's node
SameLevel(s, l, a, b) ==
    /\ ~IsAncestorOrSelf(s, l[a].node, l[b].node)
    /\ ~IsAncestorOrSelf(s, l[b].node, l[a].node)

\* the line spans of the callable records of list l lie in the text, and
\* those of two records at the same nesting level share no line
FunctionSpansDisjoint(s, l) ==
    /\ \A a \in DOMAIN l : SpanInText(s, FunctionSpan(l[a]))
    /\ \A a, b \in DOMAIN l :
          (a # b /\ SameLevel(s, l, a, b))
              => SpansDisjoint(FunctionSpan(l[a]), FunctionSpan(l[b]))

\* the point spans of the class records of list l lie in the text, and of
\* two records at the same nesting level one ends before the other starts
ClassSpansDisjoint(s, l) ==
    /\ \A a \in DOMAIN l : PointsInText(s, l[a])
    /\ \A a, b \in DOMAIN l :
          (a # b /\ SameLevel(s, l, a, b))
              => \/ PointLeq(l[a].end_point, l[b].start_point)
                 \/ PointLeq(l[b].end_point, l[a].start_point)

\* the line spans of the callable records of list l lie in the text; a
\* record built from a node nested in an earlier record's node lies within
\* that record's span; any other later record starts no earlier than the
\* line on which the earlier one ends
FunctionSpansNestOrFollow(s, l) ==
    /\ \A a \in DOMAIN l : SpanInText(s, FunctionSpan(l[a]))
    /\ \A a, b \in DOMAIN l :
          a < b =>
            IF IsAncestorOrSelf(s, l[a].node, l[b].node)
            THEN /\ l[a].start_line <= l[b].start_line
                 /\ l[b].end_line <= l[a].end_line
            ELSE l[a].end_line <= l[b].start_line

\* the same of the point spans of the class records of list l
ClassSpansNestOrFollow(s, l) ==
    /\ \A a \in DOMAIN l : PointsInText(s, l[a])
    /\ \A a, b \in DOMAIN l :
          a < b =>
            IF IsAncestorOrSelf(s, l[a].node, l[b].node)
            THEN /\ PointLeq(l[a].start_point, l[b].start_point)
                 /\ PointLeq(l[b].end_point, l[a].end_point)
            ELSE PointLeq(l[a].end_point, l[b].start_point)

\* C6 as stated: for a well-formed input every record's span lies within
\* the text, and the spans of two distinct records of one list (functions,
\* classes, the methods of one class) at the same nesting level never
\* overlap.
C6_SpansNeverOverlap ==
    \A i \in Returned :
        LET s == calls[i].src
            out == calls[i].out
        IN WellFormed(s) =>
             /\ FunctionSpansDisjoint(s, out.functions)
             /\ ClassSpansDisjoint(s, out.classes)
             /\ \A c \in Range(out.classes) :
                   FunctionSpansDisjoint(s, c.methods)

\* C6 as amended: for a well-formed input every record's span lies within
\* the text; of two records of one list, a definition nested in the other
\* lies within the other's span, and two definitions not nested in one
\* another follow each other: the (start line, end line) spans of two
\* callable records share at most the line where the earlier ends and the
\* later starts, and the point spans of two class records do not overlap.
C6_SpansNestOrFollow ==
    \A i \in Returned :
        LET s == calls[i].src
            out == calls[i].out
        IN WellFormed(s) =>
             /\ FunctionSpansNestOrFollow(s, out.functions)
             /\ ClassSpansNestOrFollow(s, out.classes)
             /\ \A c \in Range(out.classes) :
                   FunctionSpansNestOrFollow(s, c.methods)

\* C6 witness: a result for a well-formed multi-line input lists a callable
\* spanning several lines, a callable nested in it, and a callable after it.
C6_Witness ==
    \E i \in Returned :
        LET s == calls[i].src
            l == calls[i].out.functions
        IN /\ WellFormed(s)
           /\ \E a, b, c \in DOMAIN l :
                 /\ a < b /\ b < c
                 /\ l[a].start_line < l[a].end_line
                 /\ IsAncestorOrSelf(s, l[a].node, l[b].node)
                 /\ ~IsAncestorOrSelf(s, l[a].node, l[c].node)

\* C7: when process(folder) has returned, the loop has reached every file
\* of the walk: for every file that is not skipped, parser.parse was called
\* or an error was recorded for that very file; a failure never keeps the
\* loop from a later file.
C7_EveryFileReached ==
    pc = "returned" =>
        \A k \in 1..Len(folder) :
            ~Skipped(folder[k]) =>
                k \in Range(parsedLog) \/ k \in Range(errorLog)

\* C8: parsing the scenario-2 source with the java profile gives exactly
\* one class record, whose methods are exactly one callable record named bar
\* with doc comment /** doc */, and bar is not in the functions list.
C8_JavaScenario ==
    \A i \in Parsers :
        (parsers[i].status = "ready" /\ parsers[i].language = KeyJava
           /\ calls[i].src = ScenarioJavaBar)
            => /\ calls[i].out.kind = "result"
               /\ Len(calls[i].out.classes) = 1
               /\ Len(calls[i].out.classes[1].methods) = 1
               /\ calls[i].out.classes[1].methods[1].name = <<"bar">>
               /\ calls[i].out.classes[1].methods[1].doc_comment = <<"/** doc */">>
               /\ \A f \in Range(calls[i].out.functions) : f.name # <<"bar">>

RECURSIVE LeafIdentifier(_, _)
\* the identifier leaf that the declarator d wraps: d itself when it is an
\* identifier, else the one inside its pointer / function declarator child;
\* 0 when there is none
LeafIdentifier(s, d) ==
    IF d = 0 THEN 0
    ELSE IF s.kind[d] \in {"nameid", "declid", "ident"} THEN d
    ELSE IF s.kind[d] \in {"pdecl", "fdecl"}
    THEN LET inner == SelectSeq(Children(s, d),
                          LAMBDA c : s.kind[c] \in
                              {"nameid", "declid", "ident", "pdecl", "fdecl"})
         IN IF inner = <<>> THEN 0 ELSE LeafIdentifier(s, Head(inner))
    ELSE 0

\* C9: under the c and cpp profiles the name of a callable record is the
\* text of the identifier its declarator wraps, however many pointer and
\* function declarators are nested around it.
C9_DeclaratorUnwrapped ==
    \A i \in Returned :
        parsers[i].language \in {KeyC, KeyCpp} =>
            \A r \in Range(calls[i].out.functions) :
                LET s == calls[i].src
                    d == ChildByFieldName(parsers[i], s, r.node, "declarator")
                IN LeafIdentifier(s, d) # 0 => r.name = Text(s, LeafIdentifier(s, d))

\* the statements of a definition node: its children other than its name,
\* punctuation and comments
BodyStatements(s, node) ==
    SelectSeq(Children(s, node),
              LAMBDA c : s.kind[c] \notin {"nameid", "punct", "comment"})

\* the doc comment the one adjacent node gives: under the leading-literal
\* convention the first statement when it is an expression statement whose
\* sole content is a string literal, under the preceding-comment convention
\* the immediately preceding sibling when it is a comment; else ''
AdjacentDoc(p, s, node) ==
    IF p.config.docstring_type = "string"
    THEN LET body == BodyStatements(s, node) IN
         IF body # <<>> /\ s.kind[Head(body)] = "expr"
            /\ Len(Children(s, Head(body))) = 1
            /\ s.kind[Head(Children(s, Head(body)))] = "string"
         THEN Text(s, Head(Children(s, Head(body))))
         ELSE EmptyStr
    ELSE LET prev == PrevSibling(s, node) IN
         IF prev # 0 /\ s.kind[prev] = "comment" THEN Text(s, prev) ELSE EmptyStr

\* C10: the doc comment of every callable and class record is what the one
\* adjacent node gives, and '' when that node does not match; no string or
\* comment further away is returned.
C10_OneHopDoc ==
    \A i \in Returned :
        LET s == calls[i].src
            out == calls[i].out
        IN /\ \A r \in Range(out.functions) :
                 r.doc_comment = AdjacentDoc(parsers[i], s, r.node)
           /\ \A c \in Range(out.classes) :
                 /\ c.docstring = AdjacentDoc(parsers[i], s, c.node)
                 /\ \A m \in Range(c.methods) :
                       m.doc_comment = AdjacentDoc(parsers[i], s, m.node)

\* the string literal a definition's body begins with: the body is the
\* block child of the definition, and its first statement is an expression
\* statement whose sole content is a string literal; 0 when there is none
LeadingLiteral(s, node) ==
    LET blocks == SelectSeq(Children(s, node), LAMBDA c : s.kind[c] = "block") IN
    IF blocks = <<>> \/ Children(s, Head(blocks)) = <<>> THEN 0
    ELSE LET first == Head(Children(s, Head(blocks))) IN
         IF s.kind[first] = "expr" /\ Len(Children(s, first)) = 1
            /\ s.kind[Head(Children(s, first))] = "string"
         THEN Head(Children(s, first))
         ELSE 0

\* C11: under the python profile a callable whose body begins with an
\* expression statement whose sole content is a string literal carries that
\* literal's text as its doc comment; parsing scenario 1 (def foo() whose
\* body starts with """doc""") gives exactly one callable, named foo, with
\* doc comment """doc""" and start line 0.
C11_PythonLeadingLiteral ==
    \A i \in Returned :
        parsers[i].language = KeyPython =>
            LET s == calls[i].src
                out == calls[i].out
            IN /\ \A r \in Range(out.functions) :
                     LeadingLiteral(s, r.node) # 0
                         => r.doc_comment = Text(s, LeadingLiteral(s, r.node))
               /\ s = ScenarioPyDef =>
                     /\ Len(out.functions) = 1
                     /\ out.functions[1].name = <<"foo">>
                     /\ out.functions[1].doc_comment = <<"\"\"\"doc\"\"\"">>
                     /\ out.functions[1].start_line = 0

\* the declarators of the declaration statement node that have a name
NamedDeclarators(p, s, node) ==
    SelectSeq(Children(s, node),
              LAMBDA d : /\ NodeType(p, s, d) = "variable_declarator"
                         /\ ChildByFieldName(p, s, d, "name") # 0)

\* the record C12 expects for declarator d: its name text and its
\* initializer text, '' when it has none
DeclaratorRecord(p, s, d) ==
    LET value_node == ChildByFieldName(p, s, d, "value") IN
    [name |-> Text(s, ChildByFieldName(p, s, d, "name")),
     value |-> IF value_node = 0 THEN EmptyStr ELSE Text(s, value_node),
     node |-> d]

\* C12: under the javascript profile, the records the variables list holds
\* for the declarators of one variable_declaration or lexical_declaration
\* statement are exactly one per declarator that has a name, in declarator
\* order, each with the declarator's name text and initializer text ('' when
\* there is none); const a = 5; gives exactly one record, a with value 5.
C12_JsDeclarators ==
    \A i \in Returned :
        parsers[i].language = KeyJavascript =>
            LET s == calls[i].src
                p == parsers[i]
                out == calls[i].out
            IN /\ \A node \in 1..s.n :
                     NodeType(p, s, node) \in
                         {"variable_declaration", "lexical_declaration"}
                       => LET decls == NamedDeclarators(p, s, node) IN
                          SelectSeq(out.variables,
                                    LAMBDA r : s.parent[r.node] = node)
                            = [k \in 1..Len(decls) |->
                                  DeclaratorRecord(p, s, decls[k])]
               /\ s = ScenarioJsConst =>
                     /\ Len(out.variables) = 1
                     /\ out.variables[1].name = <<"a">>
                     /\ out.variables[1].value = <<"5">>

\* C12 witness: let x, y = 1; was parsed under the javascript profile and
\* gave two records, the first without an initializer.
C12_Witness ==
    \E i \in Returned :
        /\ parsers[i].language = KeyJavascript
        /\ calls[i].src = ScenarioJsLet
        /\ Len(calls[i].out.variables) = 2
        /\ calls[i].out.variables[1].value = EmptyStr
        /\ calls[i].out.variables[2].value = <<"1">>

\* C13: every callable record in the methods of a class record belongs to
\* that class as its nearest enclosing class: no other class record's node
\* lies between the class node and the callable's node, so a callable nested
\* in class B, itself nested in class A, is in B's methods and not in A's.
C13_NearestClassOwnsMethod ==
    \A i \in Returned :
        LET s == calls[i].src
            classes == Range(calls[i].out.classes)
        IN \A c \in classes :
              \A m \in Range(c.methods) :
                 \A b \in classes :
                    ~ (/\ b.node # c.node
                       /\ IsAncestorOrSelf(s, c.node, b.node)
                       /\ IsAncestorOrSelf(s, b.node, m.node))

\* the (node, doc comment) pairs of the callable and class records of a result
DocPairs(out) ==
    {<<r.node, r.doc_comment>> : r \in Range(out.functions)}
        \cup {<<c.node, c.docstring>> : c \in Range(out.classes)}
        \cup UNION {{<<m.node, m.doc_comment>> : m \in Range(c.methods)} :
                      c \in Range(out.classes)}

\* C14: the profile's convention alone selects the strategy.  Under the
\* leading-literal convention (python) nothing outside the definition is
\* consulted: a definition whose subtree holds no string literal has the
\* doc comment ''.  Under the preceding-comment convention the body is not
\* consulted: a definition with no comment among its earlier siblings has
\* the doc comment ''.
C14_StrategiesExclusive ==
    \A i \in Returned :
        LET s == calls[i].src
            p == parsers[i]
        IN \A d \in DocPairs(calls[i].out) :
              IF p.config.docstring_type = "string"
              THEN (\A n \in 1..s.n :
                       IsAncestorOrSelf(s, d[1], n) => s.kind[n] # "string")
                     => d[2] = EmptyStr
              ELSE (\A n \in 1..(d[1] - 1) :
                       s.parent[n] = s.parent[d[1]] => s.kind[n] # "comment")
                     => d[2] = EmptyStr

\* C15: a node whose shape does not match the expected field structure
\* never aborts the extraction: every parse of a source whose tree was built
\* returns a result (with its four lists), and in it a declaration without
\* a type field has the type '' and a declarator without a value the
\* value ''.
C15_ShapeMismatchNeverAborts ==
    \A i \in Parsers :
        (calls[i].out.kind # "none" /\ WellFormed(calls[i].src))
            => /\ calls[i].out.kind = "result"
               /\ \A v \in Range(calls[i].out.variables) :
                     LET s == calls[i].src
                         p == parsers[i]
                     IN /\ (p.language \in {KeyJava, KeyCpp, KeyC}
                              /\ ChildByFieldName(p, s, v.node, "type") = 0)
                             => v.type = EmptyStr
                        /\ (p.language = KeyJavascript
                              /\ ChildByFieldName(p, s, v.node, "value") = 0)
                             => v.value = EmptyStr

RECURSIVE VisitTrace(_, _)
RECURSIVE VisitTraceAll(_, _)
\* the nodes on which visit_import, visit_function or visit_variable is
\* entered when called on node, in call order: the node, then each child's
VisitTrace(s, node) == <<node>> \o VisitTraceAll(s, Children(s, node))
VisitTraceAll(s, kids) ==
    IF kids = <<>> THEN <<>>
    ELSE VisitTrace(s, Head(kids)) \o VisitTraceAll(s, Tail(kids))

RECURSIVE ClassVisitTrace(_, _, _)
RECURSIVE ClassVisitTraceAll(_, _, _)
\* the nodes visited by visit_class(node): the node, for a class node the
\* visits of the _extract_functions(node) call that fills 'methods', then
\* each child's
ClassVisitTrace(p, s, node) ==
    <<node>>
        \o (IF IsClassNode(p, s, node) THEN VisitTrace(s, node) ELSE <<>>)
        \o ClassVisitTraceAll(p, s, Children(s, node))
ClassVisitTraceAll(p, s, kids) ==
    IF kids = <<>> THEN <<>>
    ELSE ClassVisitTrace(p, s, Head(kids))
            \o ClassVisitTraceAll(p, s, Tail(kids))

\* the node visits of one parse call that returns: the four extractions in
\* the order the result dict evaluates them
ParseVisits(p, s) ==
    VisitTrace(s, 1) \o ClassVisitTrace(p, s, 1) \o VisitTrace(s, 1)
        \o VisitTrace(s, 1)

\* the number of times node n occurs in the visit sequence t
VisitCount(t, n) == Cardinality({k \in DOMAIN t : t[k] = n})

\* C16: one parse call visits every node of the tree exactly once.
C16_EveryNodeVisitedOnce ==
    \A i \in Returned :
        \A n \in 1..calls[i].src.n :
            VisitCount(ParseVisits(parsers[i], calls[i].src), n) = 1

\* C17: parse calls on separate parser objects, interleaved in any way at
\* the points between their extractions, each return what the call returns
\* when it runs alone, and the profile table LANGUAGE_CONFIGS always has
\* the contents it had at initialization.
C17_InterleavingInvisible ==
    /\ LANGUAGE_CONFIGS = ProfileTable
    /\ \A i \in Parsers :
          calls[i].out.kind # "none"
              => calls[i].out = ParseOutcome(parsers[i], calls[i].src)

\* C17 witness: a call has returned a result with a class record on one
\* object while a call for another source is between two extractions on
\* another object.
C17_Witness ==
    \E i, j \in Parsers :
        /\ i # j
        /\ calls[i].out.kind = "result"
        /\ calls[i].out.classes # <<>>
        /\ frames[j].stage \in {"classes", "functions", "variables"}
        /\ frames[j].src # calls[i].src

\* C18: a class or callable node without a sub-node under the profile's
\* name field still gets its record (in the classes, respectively functions,
\* list), and the name of every record built from such a node is the full
\* text of the definition node.
C18_NameFallsBackToText ==
    \A i \in Returned :
        LET s == calls[i].src
            p == parsers[i]
            out == calls[i].out
            Unnamed(n) == ChildByFieldName(p, s, n, p.config.name_field) = 0
        IN /\ \A n \in 1..s.n :
                 /\ (IsMethodNode(p, s, n) /\ Unnamed(n))
                       => \E r \in Range(out.functions) : r.node = n
                 /\ (IsClassNode(p, s, n) /\ Unnamed(n))
                       => \E c \in Range(out.classes) : c.node = n
           /\ \A r \in Range(out.functions) :
                 Unnamed(r.node) => r.name = Text(s, r.node)
           /\ \A c \in Range(out.classes) :
                 /\ Unnamed(c.node) => c.name = Text(s, c.node)
                 /\ \A m \in Range(c.methods) :
                       Unnamed(m.node) => m.name = Text(s, m.node)

\* ---------------------------------------------------------------------
\* JavaParser._extract_parameters (treesitter_java.py)
\* ---------------------------------------------------------------------

\* the most parameter sub-nodes a formal_parameters node of the inputs has
MaxParams == 2

\* a leaf of a parameter: a node with a type and a text and no children
JLeaf(t, x) == [type |-> t, text |-> x, children |-> <<>>]

\* the children of one formal_parameter, k being the parameter's ordinal:
\* class-typed, primitive-typed, generic-typed, modified, array-typed
\* parameters, parameters with a missing (zero-width) name, and parameters
\* cut short by a syntax error
ParamShapes(k) ==
    LET tid   == JLeaf("type_identifier", "T" \o ToString(k))
        id    == JLeaf("identifier", "x" \o ToString(k))
        noId  == JLeaf("identifier", "")
        prim  == JLeaf("integral_type", "int")
        gen   == JLeaf("generic_type", "List<T>")
        mod   == JLeaf("modifiers", "final")
        dims  == JLeaf("dimensions", "[]")
    IN  { <<>>, <<tid>>, <<id>>, <<prim>>, <<tid, id>>, <<id, tid>>,
          <<prim, id>>, <<gen, id>>, <<mod, tid, id>>, <<tid, id, dims>>,
          <<tid, noId>> }

\* the children a formal_parameters node can have at position k: a
\* formal_parameter of one of the shapes, or a spread parameter
ParamNodes(k) ==
    { [type |-> "formal_parameter", text |-> "param", children |-> c]
        : c \in ParamShapes(k) }
    \cup { [type |-> "spread_parameter", text |-> "T... xs",
            children |-> <<JLeaf("type_identifier", "T"),
                           JLeaf("identifier", "xs")>>] }

RECURSIVE ParamLists(_)
ParamLists(k) ==
    IF k = 0 THEN { <<>> }
    ELSE ParamLists(k - 1)
         \cup { Append(l, q) : l \in { m \in ParamLists(k - 1) : Len(m) = k - 1 },
                               q \in ParamNodes(k) }

\* the method nodes the extraction is applied to: a name, then a parameter
\* list, then a body; and a node with no parameter list at all
MethodNodes ==
    { [type |-> "method_declaration", text |-> "method",
       children |-> << JLeaf("identifier", "m"),
                       [type |-> "formal_parameters", text |-> "params",
                        children |-> l],
                       JLeaf("block", "{}") >>] : l \in ParamLists(MaxParams) }
    \cup { [type |-> "method_declaration", text |-> "method",
            children |-> << JLeaf("identifier", "m") >>] }

\* None, and a Python value that is not None
None == <<>>
Some(x) == <<x>>
TruthyOpt(o) == o # None /\ o[1] # ""

\* the inner loop: the last type_identifier child and the last identifier
\* child of the parameter
RECURSIVE ScanParam(_, _, _)
ScanParam(kids, param_type, param_name) ==
    IF kids = <<>> THEN [param_type |-> param_type, param_name |-> param_name]
    ELSE LET param_child == Head(kids)
         IN  IF param_child.type = "type_identifier"
             THEN ScanParam(Tail(kids), Some(param_child.text), param_name)
             ELSE IF param_child.type = "identifier"
             THEN ScanParam(Tail(kids), param_type, Some(param_child.text))
             ELSE ScanParam(Tail(kids), param_type, param_name)

\* a variant of the middle loop that appends every formal_parameter, its
\* missing parts as empty texts
RECURSIVE ScanParamsUnguarded(_)
ScanParamsUnguarded(ps) ==
    IF ps = <<>> THEN <<>>
    ELSE LET param == Head(ps)
             r == ScanParam(param.children, None, None)
             t == IF r.param_type = None THEN "" ELSE r.param_type[1]
             n == IF r.param_name = None THEN "" ELSE r.param_name[1]
         IN  IF param.type = "formal_parameter"
             THEN <<[type |-> t, name |-> n]>> \o ScanParamsUnguarded(Tail(ps))
             ELSE ScanParamsUnguarded(Tail(ps))

\* the middle loop: one record for each formal_parameter whose type and
\* name are both truthy
RECURSIVE ScanParams(_)
ScanParams(ps) ==
    IF ps = <<>> THEN <<>>
    ELSE LET param == Head(ps)
             r == ScanParam(param.children, None, None)
         IN  IF param.type = "formal_parameter"
                /\ TruthyOpt(r.param_type) /\ TruthyOpt(r.param_name)
             THEN <<[type |-> r.param_type[1], name |-> r.param_name[1]]>>
                  \o ScanParams(Tail(ps))
             ELSE ScanParams(Tail(ps))

\* the outer loop, over the children of the method node
RECURSIVE ScanMethodChildren(_)
ScanMethodChildren(cs) ==
    IF cs = <<>> THEN <<>>
    ELSE IF Head(cs).type = "formal_parameters"
         THEN ScanParams(Head(cs).children) \o ScanMethodChildren(Tail(cs))
         ELSE ScanMethodChildren(Tail(cs))

ExtractParameters(method_node) == ScanMethodChildren(method_node.children)

\* one call of _extract_parameters on a method node
ExtractParametersCall(m) ==
    /\ javaCall' = [state |-> "returned", method_node |-> m,
                    parameters |-> ExtractParameters(m)]
    /\ UNCHANGED <<parserVars, processVars, handlerVars>>

NextParams == \E m \in MethodNodes : ExtractParametersCall(m)

SpecParams == Init /\ [][NextParams]_vars

\* the parameter sub-nodes of the method's parameter list, in order
ParameterList(m) ==
    LET ix == { i \in 1..Len(m.children) : m.children[i].type = "formal_parameters" }
    IN  IF ix = {} THEN <<>>
        ELSE SelectSeq(m.children[CHOOSE i \in ix : TRUE].children,
                       LAMBDA q : q.type = "formal_parameter")

\* the texts a parameter resolves to: of its type_identifier child, of its
\* identifier child
ResolvedTexts(q, t) ==
    { q.children[i].text : i \in { j \in 1..Len(q.children) :
                                     q.children[j].type = t /\ q.children[j].text # "" } }

HasTypeAndName(q) ==
    ResolvedTexts(q, "type_identifier") # {} /\ ResolvedTexts(q, "identifier") # {}

TaggedNodes(s, Tagged(_)) == SelectSeq([k \in 1..s.n |-> k], Tagged)

\* the nodes the records of a list were built from, in list order
RecordNodes(records) == [k \in 1..Len(records) |-> records[k].node]

\* a node the variable extraction of the parser's language matches
IsVariableNode(p, s, node) ==
    \/ p.language = KeyPython /\ NodeType(p, s, node) = "assignment"
    \/ p.language \in {KeyJava, KeyCpp, KeyC} /\ NodeType(p, s, node) = "declaration"
    \/ /\ p.language = KeyJavascript
       /\ NodeType(p, s, node) \in {"variable_declaration", "lexical_declaration"}

\* C20: the visits continue below every matched node, to any depth: in every
\* result the classes list has exactly one record for each class-tagged node
\* of the tree (a class inside a class or inside a callable included), the
\* imports list one for each import-tagged node, and every variable-tagged
\* node has a record in the variables list (built from the node itself, or
\* from one of its declarators).
C20_EveryTaggedNodeYieldsRecord ==
    \A i \in Returned :
        LET p == parsers[i]
            s == calls[i].src
            out == calls[i].out
        IN  /\ RecordNodes(out.classes)
                  = TaggedNodes(s, LAMBDA n : IsClassNode(p, s, n))
            /\ RecordNodes(out.imports)
                  = TaggedNodes(s, LAMBDA n : IsImportNode(p, s, n))
            /\ \A node \in 1..s.n :
                  IsVariableNode(p, s, node) =>
                      \E r \in Range(out.variables) :
                          r.node = node \/ s.parent[r.node] = node

\* C21: profile lookup is case-insensitive.  An id whose lower-case form is
\* a key of the profile table is never refused as unsupported; the object
\* stores the lower-case form as its language and that key's profile; and
\* two objects built from case variants of one id return the same outcome
\* for the same source.
C21_CaseInsensitiveLookup ==
    \A i \in Parsers :
        /\ (parsers[i].status # "none" /\ Lower(parsers[i].id) \in ProfileKeys)
              => parsers[i].status # "ValueError"
        /\ parsers[i].status = "ready"
              => /\ parsers[i].language = Lower(parsers[i].id)
                 /\ parsers[i].config = ProfileTable[Lower(parsers[i].id)]
                 /\ \A j \in Parsers :
                       (/\ parsers[j].status = "ready"
                        /\ Lower(parsers[j].id) = Lower(parsers[i].id)
                        /\ calls[i] # NoCall /\ calls[j] # NoCall
                        /\ calls[i].src = calls[j].src)
                          => calls[i].out = calls[j].out

\* C21 witness: one object built from 'python' and one from 'Python' parsed
\* the nested python scenario and returned the same result.
C21_Witness ==
    \E i, j \in Parsers :
        /\ parsers[i].status = "ready" /\ parsers[i].id = KeyPython
        /\ parsers[j].status = "ready" /\ parsers[j].id = IdPythonMixed
        /\ calls[i].src = ScenarioPyNested /\ calls[j].src = ScenarioPyNested
        /\ calls[i].out.kind = "result"
        /\ calls[i].out = calls[j].out

\* the positions of the files of a walk that are neither hidden nor of an
\* unknown extension
Eligible(f) == {k \in 1..Len(f) : ~Skipped(f[k])}

\* how often position k occurs in a log
Occurrences(log, k) == Cardinality({j \in 1..Len(log) : log[j] = k})

\* C22: when process(folder) has returned, every file that is not hidden and
\* has a supported extension has been counted exactly once, as processed
\* (its path is a key of the documentation map) or as an error, so that
\* file_count + error_count is the number of such files; a hidden file or a
\* file of unknown extension is counted in neither and was never parsed.
C22_CounterAccounting ==
    pc = "returned" =>
        /\ file_count + error_count = Cardinality(Eligible(folder))
        /\ file_count = Cardinality(DOMAIN documentation)
        /\ error_count = Len(errorLog)
        /\ \A k \in Eligible(folder) :
              (IF k \in DOMAIN documentation THEN 1 ELSE 0)
                  + Occurrences(errorLog, k) = 1
        /\ \A k \in (1..Len(folder)) \ Eligible(folder) :
              /\ k \notin DOMAIN documentation
              /\ Occurrences(errorLog, k) = 0
              /\ Occurrences(parsedLog, k) = 0

Bodies ==
    {[json |-> "None"], [json |-> "empty_dict"], [json |-> "dict_without"],
     [json |-> "dict", folder_path |-> "nonexistent"],
     [json |-> "dict", folder_path |-> "file"],
     [json |-> "dict", folder_path |-> "directory"],
     [json |-> "dict", folder_path |-> "null"],
     [json |-> "list_with"]}

\* not data or 'folder_path' not in data
FolderPathRequired(body) ==
    body.json \in {"None", "empty_dict", "dict_without"}

\* data['folder_path'] raises TypeError on a list; os.path.exists(None)
\* raises TypeError, which genericpath.exists does not catch
ValidationRaises(body) ==
    \/ body.json = "list_with"
    \/ body.json = "dict" /\ body.folder_path = "null"

\* not os.path.exists(folder_path) or not os.path.isdir(folder_path)
InvalidFolderPath(body) ==
    body.json # "dict" \/ body.folder_path # "directory"

\* the handler up to its call of process: lines 154-160
HandleRequest(body) ==
    /\ pc = "idle"
    /\ request.state \in {"none", "responded", "raised"}
    /\ request' =
          IF FolderPathRequired(body)
          THEN [state |-> "responded", body |-> body, status |-> 400,
                processCalls |-> 0]
          ELSE IF ValidationRaises(body)
          THEN [state |-> "raised", body |-> body, status |-> 500,
                processCalls |-> 0]
          ELSE IF InvalidFolderPath(body)
          THEN [state |-> "responded", body |-> body, status |-> 400,
                processCalls |-> 0]
          ELSE [state |-> "validated", body |-> body, status |-> 0,
                processCalls |-> 0]
    /\ UNCHANGED <<parserVars, processVars, javaVars>>

\* result = process(folder_path): line 162, f being what the walk of the
\* directory meets
HandlerProcess(f, hasKey) ==
    /\ request.state = "validated"
    /\ ProcessEnter(f, hasKey)
    /\ request' = [request EXCEPT !.state = "processing",
                                  !.processCalls = @ + 1]

\* lines 164-167: result['success'] selects the response
HandlerRespond ==
    /\ request.state = "processing"
    /\ ProcessLeave
    /\ request' =
          IF "success" \notin DOMAIN result
          THEN [request EXCEPT !.state = "raised", !.status = 500]
          ELSE [request EXCEPT !.state = "responded",
                               !.status = IF result.success THEN 200 ELSE 500]

NextHandler ==
    \/ \E body \in Bodies : HandleRequest(body)
    \/ \E f \in Folders, hasKey \in BOOLEAN : HandlerProcess(f, hasKey)
    \/ HandlerRespond

SpecHandler == Init /\ [][NextHandler]_vars

\* C24: the handler responds 400, without calling process, when the body is
\* missing, lacks 'folder_path', or names a path that does not exist or is
\* not a directory; for every other request it calls process exactly once;
\* it never raises; and its response to a request it passed to process is
\* 200 or 500.
C24_HandlerNeverRaises ==
    /\ request.state # "raised"
    /\ request.state = "responded" =>
          IF FolderPathRequired(request.body) \/ InvalidFolderPath(request.body)
          THEN request.status = 400 /\ request.processCalls = 0
          ELSE request.status \in {200, 500} /\ request.processCalls = 1

=============================================================================
